---- MODULE Spec2Model ----
(***************************************************************************)
(* Session controller, adapter event handlers and realtime gateway of the  *)
(* WhatsApp relay backend (src/index.js), as a state machine.              *)
(*                                                                         *)
(* All handlers run on one event loop: a handler runs without interruption *)
(* from one await to the next.  Each action below is one such run-to-await *)
(* segment.  A handler run that is suspended at an await is a record in    *)
(* the bag `tasks`; the record's pc names the await it is suspended at.    *)
(***************************************************************************)
EXTENDS Integers, Sequences, FiniteSets, Bags, TLC

\* ------------------------------------------------------------------ bounds
MaxAdapters == 2    \* adapters constructed in one run
MaxTasks == 2       \* handler runs suspended at an await at the same time
MaxTimers == 1      \* recreation timers pending at the same time
MaxInits == 2       \* initialize calls made on one adapter
MaxMsgs == 2        \* messages in one fetchMessages result
MaxRequests == 1    \* gateway requests suspended at an await at the same time

\* ------------------------------------------------------- program constants
ChatLimit == 50         \* chats.slice(0, 50)
DefaultRetries == 3     \* getFormattedChats(retries = 3)

VARIABLES
    booted,             \* the startup block has run
    client,             \* the adapter reference: an adapter id, 0 for null
    clientInitialized,
    isClientReady,
    lastQrDataUrl,
    isInitializing,
    adapters,           \* the adapter objects constructed so far
    authFolder,         \* the session-store directory exists on disk
    tasks,              \* bag of the handler runs suspended at an await
    timers,             \* recreation timers scheduled and not yet fired
    fin                 \* the handler run that ended in the last step, if any

vars == <<booted, client, clientInitialized, isClientReady, lastQrDataUrl,
          isInitializing, adapters, authFolder, tasks, timers, fin>>

\* What the request handlers of the gateway never write.
session == <<booted, client, clientInitialized, isClientReady, lastQrDataUrl,
             isInitializing, adapters, authFolder, timers>>

\* ------------------------------------------------------------------ values
Null == 0
Broadcast == 0          \* io.emit(...); socket.emit goes to a socket id
Sockets == {1, 2}
AdapterIds == 1 .. MaxAdapters
QrCodes == {"2@pairing"}
NoQr == <<>>
\* qrcode.toDataURL(qr): the image of a pairing code, not the code itself
ToDataURL(qr) == <<"data:image/png", qr>>

SessionClosed == "Session closed"
OtherError == "Evaluation failed"
GetChatsErrors == {SessionClosed, OtherError}

\* The chats the adapter returns: lists of chat ids in the adapter's order.
\* RawCounts holds a list below and a list above the limit.
RawCounts == {0, ChatLimit + 1}
RawChatLists == {[i \in 1 .. n |-> i] : n \in RawCounts}
\* For the formatter alone: every length up to two above the limit, with
\* three numberings of the chats.
ChatInputs ==
    {[i \in 1 .. n |-> i + 100 * k] : n \in 0 .. ChatLimit + 2, k \in 0 .. 2}

\* Requests: the caller's correlation ids, the chat asked for, and the
\* messages of a chat as fetchMessages returns them.  A message's id is its
\* place in the list; a message without a type has type "".
TempIds == {"t1", "t2"}
ChatIds == {"123@c.us"}
MsgShapes == {<<"chat", FALSE>>, <<"image", TRUE>>, <<"revoked", FALSE>>,
              <<"", TRUE>>}
MessageLists ==
    UNION {{[i \in 1 .. n |-> [id |-> i, type |-> f[i][1], hasMedia |-> f[i][2]]] :
              f \in [1 .. n -> MsgShapes]} : n \in 0 .. MaxMsgs}
MessageIds == 1 .. MaxMsgs + 1
\* downloadMedia(): media with data, media without data, or an error
Downloads == {"data", "empty", "throw"}


\* A message of a message_create event: sent by this account to the chat's
\* peer or received from it.
Me == "me@c.us"
CreatedMessages ==
    {[id |-> 1, type |-> sh[1], hasMedia |-> sh[2], fromMe |-> b,
      from |-> IF b THEN Me ELSE c, to |-> IF b THEN c ELSE Me] :
        sh \in MsgShapes \ {<<"revoked", FALSE>>}, b \in BOOLEAN, c \in ChatIds}

Min(a, b) == IF a < b THEN a ELSE b

\* ------------------------------------------------------------------- tasks
Emit(ev, to, val) == [ev |-> ev, to |-> to, val |-> val]

\* A handler run: its kind, the await it is suspended at, the adapter whose
\* call it awaits, the requesting socket, the request's argument, the
\* retries left of getFormattedChats, the adapter calls it has made and
\* the events it has emitted so far; data names what the last awaited call
\* gave, mid is the message id asked for and msgs the messages fetched.
Task(kind, pc, ad, sock, arg, retries, calls, out) ==
    [kind |-> kind, pc |-> pc, ad |-> ad, sock |-> sock, arg |-> arg,
     retries |-> retries, calls |-> calls, out |-> out, data |-> "",
     mid |-> 0, msgs |-> <<>>]

NoRun == Task("none", "done", Null, 0, "", 0, 0, <<>>)

Running == BagToSet(tasks)
HasRoom == BagCardinality(tasks) < MaxTasks
Spawn(tk, t) == tk (+) SetToBag({t})
Drop(tk, t) == tk (-) SetToBag({t})
Done(t, out) == [t EXCEPT !.pc = "done", !.out = out]

\* ---------------------------------------------------------------- adapters
NoAdapter == [phase |-> "none", inits |-> 0, destroyCalled |-> FALSE]
NewAdapter == [phase |-> "new", inits |-> 0, destroyCalled |-> FALSE]

Unused(ads) == {a \in AdapterIds : ads[a].phase = "none"}
HasFreeAdapter(ads) == Unused(ads) # {}
FreshId(ads) == CHOOSE a \in Unused(ads) : \A b \in Unused(ads) : a <= b

\* An adapter emits events while its browser session runs.
Live(a) == adapters[a].phase \in {"started", "authed", "ready"}

\* client.initialize(): the auth strategy creates the session-store
\* directory and the browser session starts (again, after a loss or destroy).
CallInitialize(ads, a) ==
    [ads EXCEPT ![a].inits = @ + 1,
                ![a].phase = IF @ \in {"new", "lost", "closed"} THEN "started" ELSE @]

CallDestroy(ads, a) == [ads EXCEPT ![a].destroyCalled = TRUE]

\* destroy() resolved: the browser is closed.  destroy() rejected: it is not.
SettleDestroy(ads, a, ok) ==
    IF ok THEN [ads EXCEPT ![a].phase = "closed"] ELSE ads

\* The auth strategy's mkdir at initialize: a directory that a pending
\* handler's fs.rm has removed exists again when that handler goes on.
Recreated(t) == IF t.data = "removed" THEN [t EXCEPT !.data = "recreated"] ELSE t

\* ------------------------------------------------------ session controller
\* createClientInstance(): client = new Client(...), whatever client was.
CreateClientInstance(ads) == [ads EXCEPT ![FreshId(ads)] = NewAdapter]

\* Faulty variant: the in-flight check is missing.
InitLatchedIgnored == FALSE

\* if (isInitializing) return;
InitLatched == isInitializing

\* if (clientInitialized && isClientReady) return;
AlreadyReady == clientInitialized /\ isClientReady

\* The synchronous part of initializeClientIfNeeded(), called with the
\* adapter reference cl, the adapters ads and the suspended runs tk.
\* It ends at `await client.initialize()` or at one of the early returns.
InitWillCreate(cl) == ~InitLatched /\ cl = Null
InitWillCall(cl) == ~InitLatched /\ ~AlreadyReady
InitTarget(cl, ads) == IF cl = Null THEN FreshId(ads) ELSE cl

CanInitializeClientIfNeeded(cl, ads, tk) ==
    /\ InitWillCreate(cl) => HasFreeAdapter(ads)
    /\ InitWillCall(cl) =>
          /\ BagCardinality(tk) < MaxTasks
          /\ (cl # Null => ads[cl].inits < MaxInits)

InitializeClientIfNeeded(cl, ads, tk) ==
    IF InitLatched
    THEN /\ client' = cl
         /\ adapters' = ads
         /\ tasks' = tk
         /\ UNCHANGED <<isInitializing, authFolder>>
    ELSE LET c1 == InitTarget(cl, ads)
             ads1 == IF cl = Null THEN CreateClientInstance(ads) ELSE ads
         IN  /\ client' = c1
             /\ IF AlreadyReady
                THEN /\ adapters' = ads1
                     /\ tasks' = tk
                     /\ UNCHANGED <<isInitializing, authFolder>>
                ELSE /\ isInitializing' = TRUE
                     /\ adapters' = CallInitialize(ads1, c1)
                     /\ authFolder' = TRUE
                     /\ tasks' = Spawn(BagOfAll(Recreated, tk),
                                       Task("init", "await_initialize", c1,
                                            0, "", 0, 1, <<>>))

\* A call of initializeClientIfNeeded() that returned at once, made by a
\* handler of the given kind; NoRun when the call went on to initialize.
InitReturned(kind) ==
    IF InitLatched
    THEN [Task(kind, "done", Null, 0, "", 0, 0, <<>>) EXCEPT !.data = "latched"]
    ELSE IF AlreadyReady
         THEN [Task(kind, "done", Null, 0, "", 0, 0, <<>>) EXCEPT !.data = "ready"]
         ELSE NoRun

\* The startup block: createClientInstance(); await initializeClientIfNeeded()
Startup ==
    /\ ~booted
    /\ booted' = TRUE
    /\ InitializeClientIfNeeded(FreshId(adapters), CreateClientInstance(adapters), tasks)
    /\ fin' = NoRun
    /\ UNCHANGED <<clientInitialized, isClientReady, lastQrDataUrl, timers>>

\* socket.on("start-session"): await initializeClientIfNeeded()
StartSession(s) ==
    /\ booted
    /\ CanInitializeClientIfNeeded(client, adapters, tasks)
    /\ InitializeClientIfNeeded(client, adapters, tasks)
    /\ fin' = InitReturned("start-session")
    /\ UNCHANGED <<booted, clientInitialized, isClientReady, lastQrDataUrl, timers>>

\* await client.initialize() resolved: clientInitialized = true; finally
InitializeResolved(t) ==
    /\ t.kind = "init" /\ t.pc = "await_initialize"
    /\ clientInitialized' = TRUE
    /\ isInitializing' = FALSE
    /\ tasks' = Drop(tasks, t)
    /\ fin' = Done(t, <<>>)
    /\ UNCHANGED <<booted, client, isClientReady, lastQrDataUrl, adapters,
                   authFolder, timers>>

\* Faulty variant: the finally block is missing on the failure path.
InitializeRejectedKeepsLatch(t) ==
    /\ t.kind = "init" /\ t.pc = "await_initialize"
    /\ clientInitialized' = FALSE
    /\ tasks' = Drop(tasks, t)
    /\ fin' = Done(t, <<Emit("error-message", Broadcast,
                            "Failed to initialize WhatsApp client")>>)
    /\ UNCHANGED <<booted, client, isClientReady, lastQrDataUrl, adapters,
                   authFolder, timers, isInitializing>>

\* await client.initialize() rejected: the catch block; finally
InitializeRejected(t) ==
    /\ t.kind = "init" /\ t.pc = "await_initialize"
    /\ clientInitialized' = FALSE
    /\ isInitializing' = FALSE
    /\ tasks' = Drop(tasks, t)
    /\ fin' = Done(t, <<Emit("error-message", Broadcast,
                            "Failed to initialize WhatsApp client")>>)
    /\ UNCHANGED <<booted, client, isClientReady, lastQrDataUrl, adapters,
                   authFolder, timers>>

\* The timer set by the disconnected and logout handlers:
\* createClientInstance(); initializeClientIfNeeded();
RecreateTimer ==
    /\ timers > 0
    /\ HasFreeAdapter(adapters)
    /\ LET c1 == FreshId(adapters)
           ads1 == CreateClientInstance(adapters)
       IN  /\ CanInitializeClientIfNeeded(c1, ads1, tasks)
           /\ InitializeClientIfNeeded(c1, ads1, tasks)
    /\ timers' = timers - 1
    /\ fin' = InitReturned("timer")
    /\ UNCHANGED <<booted, clientInitialized, isClientReady, lastQrDataUrl>>

\* ------------------------------------------------- chat/message formatter
\* Faulty variant: the list is not cut.
FormatChatsUncapped(raw) == raw

\* chats.slice(0, 50).map(...): the first 50 chats, each projected to its
\* simplified shape (the projection keeps the chat's id and order).
FormatChats(raw) == SubSeq(raw, 1, Min(ChatLimit, Len(raw)))

\* Faulty variant: only the adapter reference is looked at.
ChatsNotReadyWithoutFlag(rdy, cl) == cl = Null

\* if (!isClientReady || !client) return [];
ChatsNotReady(rdy, cl) == ~rdy \/ cl = Null

\* if (String(err.message).includes("Session closed")) return [];
IsSessionClosed(err) == err = SessionClosed

\* Faulty variant: the retries are not counted.
MayRetryAlways(t) == TRUE

\* if (retries > 0) { await delay; return getFormattedChats(retries - 1) }
MayRetry(t) == t.retries > 0

\* What the caller of getFormattedChats() does with the list it returns.
AfterChats(t, list) ==
    CASE t.kind \in {"ready", "message_create"} ->
            t.out \o <<Emit("chats", Broadcast, list)>>
      [] t.kind = "request-initial-status" ->
            t.out \o <<Emit("initial-status", t.sock, list),
                       Emit("chats", t.sock, list)>>
      [] OTHER -> t.out \o <<Emit("chats", t.sock, list)>>

\* One call of getFormattedChats(t.retries) inside run t, with the ready flag
\* rdy and adapter reference cl read at the call; tk holds the other runs.
\* It returns [] at once or suspends at `await client.getChats()`.
GetFormattedChats(t, rdy, cl, tk) ==
    IF ChatsNotReady(rdy, cl)
    THEN /\ tasks' = tk
         /\ fin' = Done(t, AfterChats(t, <<>>))
    ELSE /\ tasks' = Spawn(tk, [t EXCEPT !.pc = "await_getChats", !.ad = cl,
                                         !.calls = @ + 1])
         /\ fin' = NoRun

\* await client.getChats() resolved with the adapter's chats
GetChatsResolved(t, raw) ==
    /\ t.pc = "await_getChats"
    /\ adapters[t.ad].phase = "ready"
    /\ tasks' = Drop(tasks, t)
    /\ fin' = Done(t, AfterChats(t, FormatChats(raw)))
    /\ UNCHANGED <<booted, client, clientInitialized, isClientReady,
                   lastQrDataUrl, isInitializing, adapters, authFolder, timers>>

\* await client.getChats() rejected: the catch block of getFormattedChats
GetChatsRejected(t, err) ==
    /\ t.pc = "await_getChats"
    /\ IF ~IsSessionClosed(err) /\ MayRetry(t)
       THEN /\ tasks' = Spawn(Drop(tasks, t), [t EXCEPT !.pc = "retry_delay"])
            /\ fin' = NoRun
       ELSE /\ tasks' = Drop(tasks, t)
            /\ fin' = Done(t, AfterChats(t, <<>>))
    /\ UNCHANGED <<booted, client, clientInitialized, isClientReady,
                   lastQrDataUrl, isInitializing, adapters, authFolder, timers>>

\* The 500 ms delay is over: return getFormattedChats(retries - 1)
RetryDelayElapsed(t) ==
    /\ t.pc = "retry_delay"
    /\ GetFormattedChats([t EXCEPT !.retries = @ - 1], isClientReady, client,
                         Drop(tasks, t))
    /\ UNCHANGED <<booted, client, clientInitialized, isClientReady,
                   lastQrDataUrl, isInitializing, adapters, authFolder, timers>>

\* --------------------------------------------------- adapter event handlers
\* client.on("qr"): up to `await qrcode.toDataURL(qr)`
AdapterQr(a, qr) ==
    /\ adapters[a].phase = "started"
    /\ HasRoom
    /\ tasks' = Spawn(tasks, Task("qr", "await_toDataURL", Null, 0, qr, 0, 0, <<>>))
    /\ fin' = NoRun
    /\ UNCHANGED <<booted, client, clientInitialized, isClientReady,
                   lastQrDataUrl, isInitializing, adapters, authFolder, timers>>

\* toDataURL resolved: store the image, broadcast it and status qr_received
QrEncoded(t) ==
    /\ t.kind = "qr" /\ t.pc = "await_toDataURL"
    /\ lastQrDataUrl' = ToDataURL(t.arg)
    /\ tasks' = Drop(tasks, t)
    /\ fin' = Done(t, <<Emit("qr", Broadcast, ToDataURL(t.arg)),
                        Emit("status", Broadcast, "qr_received")>>)
    /\ UNCHANGED <<booted, client, clientInitialized, isClientReady,
                   isInitializing, adapters, authFolder, timers>>

\* toDataURL rejected: the catch block only logs
QrEncodingFailed(t) ==
    /\ t.kind = "qr" /\ t.pc = "await_toDataURL"
    /\ tasks' = Drop(tasks, t)
    /\ fin' = Done(t, <<>>)
    /\ UNCHANGED <<booted, client, clientInitialized, isClientReady,
                   lastQrDataUrl, isInitializing, adapters, authFolder, timers>>

\* client.on("authenticated")
AdapterAuthenticated(a) ==
    /\ adapters[a].phase = "started"
    /\ adapters' = [adapters EXCEPT ![a].phase = "authed"]
    /\ lastQrDataUrl' = NoQr
    /\ fin' = Task("authenticated", "done", Null, 0, "", 0, 0,
                   <<Emit("status", Broadcast, "authenticated")>>)
    /\ UNCHANGED <<booted, client, clientInitialized, isClientReady,
                   isInitializing, authFolder, tasks, timers>>

\* Faulty variant: the chats are fetched before the status is broadcast.
ReadyRunWithoutStatus ==
    Task("ready", "run", Null, 0, "", DefaultRetries, 0, <<>>)

\* The ready handler's run as it calls getFormattedChats():
\* io.emit("status", "ready") has been done.
ReadyRun ==
    Task("ready", "run", Null, 0, "", DefaultRetries, 0,
         <<Emit("status", Broadcast, "ready")>>)

\* client.on("ready"): up to the await inside getFormattedChats()
AdapterReady(a) ==
    /\ adapters[a].phase = "authed"
    /\ adapters' = [adapters EXCEPT ![a].phase = "ready"]
    /\ isClientReady' = TRUE
    /\ ~ChatsNotReady(TRUE, client) => HasRoom
    /\ GetFormattedChats(ReadyRun, TRUE, client, tasks)
    /\ UNCHANGED <<booted, client, clientInitialized, lastQrDataUrl,
                   isInitializing, authFolder, timers>>

\* client = null; isClientReady = false; clientInitialized = false;
\* lastQrDataUrl = null;
ResetSession ==
    /\ client' = Null
    /\ isClientReady' = FALSE
    /\ clientInitialized' = FALSE
    /\ lastQrDataUrl' = NoQr

\* fs.rm(AUTH_FOLDER_PATH, { recursive: true, force: true }) removes the
\* directory or fails (a file of a running browser is busy); the awaiting
\* handler goes on in a later step.
FsRm(t) ==
    /\ t.pc = "await_rm"
    /\ \/ /\ authFolder' = FALSE
          /\ tasks' = Spawn(Drop(tasks, t),
                            [t EXCEPT !.pc = "after_rm", !.data = "removed"])
       \/ /\ authFolder' = authFolder
          /\ tasks' = Spawn(Drop(tasks, t),
                            [t EXCEPT !.pc = "after_rm", !.data = "rm failed"])
    /\ fin' = NoRun
    /\ UNCHANGED <<booted, client, clientInitialized, isClientReady,
                   lastQrDataUrl, isInitializing, adapters, timers>>

\* client.on("disconnected"): up to `await client.destroy()`; with no
\* adapter reference client.destroy() throws at once and the handler goes
\* on to `await fs.rm(...)`.
AdapterDisconnected(a) ==
    /\ Live(a)
    /\ HasRoom
    /\ LET lost == [adapters EXCEPT ![a].phase = "lost"]
       IN  IF client = Null
           THEN /\ adapters' = lost
                /\ ResetSession
                /\ tasks' = Spawn(tasks, Task("disconnected", "await_rm", Null,
                                              0, "", 0, 0, <<>>))
           ELSE /\ adapters' = CallDestroy(lost, client)
                /\ tasks' = Spawn(tasks, Task("disconnected", "await_destroy",
                                              client, 0, "", 0, 1, <<>>))
                /\ UNCHANGED <<client, isClientReady, clientInitialized,
                               lastQrDataUrl>>
    /\ fin' = NoRun
    /\ UNCHANGED <<booted, isInitializing, authFolder, timers>>

\* disconnected: destroy() settled; reset the session; `await fs.rm(...)`
DisconnectedAfterDestroy(t, ok) ==
    /\ t.kind = "disconnected" /\ t.pc = "await_destroy"
    /\ adapters' = SettleDestroy(adapters, t.ad, ok)
    /\ ResetSession
    /\ tasks' = Spawn(Drop(tasks, t), [t EXCEPT !.pc = "await_rm"])
    /\ fin' = NoRun
    /\ UNCHANGED <<booted, isInitializing, authFolder, timers>>

\* Faulty variant: logged_out is not broadcast.
DisconnectedBroadcastsStatusOnly ==
    <<Emit("status", Broadcast, "disconnected")>>

\* io.emit("status", "disconnected"); io.emit("logged_out");
DisconnectedBroadcasts ==
    <<Emit("status", Broadcast, "disconnected"), Emit("logged_out", Broadcast, "")>>

\* disconnected: fs.rm settled; broadcast; set the recreation timer
DisconnectedAfterRm(t) ==
    /\ t.kind = "disconnected" /\ t.pc = "after_rm"
    /\ timers < MaxTimers
    /\ timers' = timers + 1
    /\ tasks' = Drop(tasks, t)
    /\ fin' = Done(t, DisconnectedBroadcasts)
    /\ UNCHANGED <<booted, client, clientInitialized, isClientReady,
                   lastQrDataUrl, isInitializing, adapters, authFolder>>

\* ---------------------------------------------------------- gateway: logout
\* socket.on("logout"): up to `await client.destroy()`, or with no adapter
\* reference up to `await fs.rm(...)`
Logout(s) ==
    /\ booted
    /\ HasRoom
    /\ IF client # Null
       THEN /\ adapters' = CallDestroy(adapters, client)
            /\ tasks' = Spawn(tasks, Task("logout", "await_destroy", client, 0,
                                          "", 0, 1, <<>>))
       ELSE /\ adapters' = adapters
            /\ tasks' = Spawn(tasks, Task("logout", "await_rm", Null, 0, "", 0,
                                          0, <<>>))
    /\ fin' = NoRun
    /\ UNCHANGED <<booted, client, clientInitialized, isClientReady,
                   lastQrDataUrl, isInitializing, authFolder, timers>>

\* logout: the statements after the try block
LogoutFinish(t) ==
    /\ ResetSession
    /\ timers < MaxTimers
    /\ timers' = timers + 1
    /\ tasks' = Drop(tasks, t)
    /\ fin' = Done(t, <<Emit("logged_out", Broadcast, ""),
                        Emit("status", Broadcast, "disconnected")>>)

\* logout: destroy() resolved, `await fs.rm(...)`
LogoutDestroyResolved(t) ==
    /\ t.kind = "logout" /\ t.pc = "await_destroy"
    /\ adapters' = SettleDestroy(adapters, t.ad, TRUE)
    /\ tasks' = Spawn(Drop(tasks, t), [t EXCEPT !.pc = "await_rm"])
    /\ fin' = NoRun
    /\ UNCHANGED <<booted, client, clientInitialized, isClientReady,
                   lastQrDataUrl, isInitializing, authFolder, timers>>

\* logout: destroy() rejected: the catch block skips fs.rm
LogoutDestroyRejected(t) ==
    /\ t.kind = "logout" /\ t.pc = "await_destroy"
    /\ LogoutFinish(t)
    /\ UNCHANGED <<booted, isInitializing, adapters, authFolder>>

\* logout: fs.rm settled
LogoutAfterRm(t) ==
    /\ t.kind = "logout" /\ t.pc = "after_rm"
    /\ LogoutFinish(t)
    /\ UNCHANGED <<booted, isInitializing, adapters, authFolder>>

\* ------------------------------------------------------ message projection
\* The handlers of message_create and get-chat-messages build the same
\* simplified message.
\* messageData of one message; media is the downloaded media or "null"
Simplified(m, media) ==
    [id |-> m.id, type |-> IF m.type = "" THEN "null" ELSE m.type,
     hasMedia |-> m.hasMedia, media |-> media]

\* if (m.hasMedia && m.type)
WantsMedia(m) == m.hasMedia /\ m.type # ""

\* if (media && media.data) messageData.media = {...}; a download that
\* throws leaves media null
MediaOf(m, dl) == IF WantsMedia(m) /\ dl = "data" THEN "media" ELSE "null"

\* ------------------------------------------------- adapter: message_create
\* Faulty variant: the handler does not look at the ready flag.
MessageCreateAlwaysHandled == FALSE

\* if (!isClientReady) return;
MessageCreateIgnored == ~isClientReady

\* chatId: msg.fromMe ? msg.to : msg.from
ChatOf(m) == IF m.fromMe THEN m.to ELSE m.from

\* io.emit("new_message", { chatId, message: simplifiedMessage })
NewMessage(m, media) ==
    Emit("new_message", Broadcast,
         [chatId |-> ChatOf(m), message |-> Simplified(m, media)])

\* client.on("message_create"): up to `await msg.downloadMedia()`, or for a
\* message without media up to the await inside getFormattedChats()
AdapterMessageCreate(a, m) ==
    /\ adapters[a].phase = "ready"
    /\ LET t == [Task("message_create", "run", Null, 0, ChatOf(m),
                      DefaultRetries, 0, <<>>) EXCEPT !.msgs = <<m>>]
       IN  IF MessageCreateIgnored
           THEN /\ fin' = Done(t, <<>>)
                /\ tasks' = tasks
           ELSE IF WantsMedia(m)
                THEN /\ HasRoom
                     /\ fin' = NoRun
                     /\ tasks' = Spawn(tasks, [t EXCEPT !.pc = "await_download"])
                ELSE /\ ~ChatsNotReady(isClientReady, client) => HasRoom
                     /\ GetFormattedChats([t EXCEPT !.out = <<NewMessage(m, "null")>>],
                                          isClientReady, client, tasks)
    /\ UNCHANGED session

\* message_create: downloadMedia() settled; broadcast new_message; go on up
\* to the await inside getFormattedChats()
MessageCreateDownloaded(t, dl) ==
    /\ t.kind = "message_create" /\ t.pc = "await_download"
    /\ GetFormattedChats([t EXCEPT !.data = dl,
                                   !.out = <<NewMessage(t.msgs[1],
                                                        MediaOf(t.msgs[1], dl))>>],
                         isClientReady, client, Drop(tasks, t))
    /\ UNCHANGED session

\* ---------------------------------------------------- gateway: connection
\* Faulty variant: a stored pairing image is not looked at.
ConnectionGreetingWithoutQr(s) ==
    IF isClientReady THEN <<Emit("status", s, "ready")>>
    ELSE <<Emit("status", s, "disconnected")>>

\* io.on("connection"): what the new socket is sent at once
ConnectionGreeting(s) ==
    IF isClientReady THEN <<Emit("status", s, "ready")>>
    ELSE IF lastQrDataUrl # NoQr
         THEN <<Emit("qr", s, lastQrDataUrl), Emit("status", s, "qr_received")>>
         ELSE <<Emit("status", s, "disconnected")>>

\* io.on("connection"); when ready, getFormattedChats().then(chats =>
\* socket.emit("chats", chats)) goes on up to the await inside
\* getFormattedChats()
Connection(s) ==
    /\ booted
    /\ LET t == Task("connection", "run", Null, s, "", DefaultRetries, 0,
                     ConnectionGreeting(s))
       IN  IF isClientReady
           THEN /\ ~ChatsNotReady(isClientReady, client) => HasRoom
                /\ GetFormattedChats(t, isClientReady, client, tasks)
           ELSE /\ fin' = Done(t, t.out)
                /\ tasks' = tasks
    /\ UNCHANGED session

\* ------------------------------------------------- gateway: request handlers
NotReadyMessage == "WhatsApp client not ready yet"

\* A request is taken up while fewer than MaxRequests are suspended.
RequestKinds == {"get-chats", "get-chat-messages", "get-message-media",
                 "send-message"}
RequestRoom ==
    /\ HasRoom
    /\ BagCardinality(tasks) < MaxRequests
         \/ \E T \in SUBSET Running :
               /\ \A t \in T : t.kind \in RequestKinds
               /\ \A t \in Running \ T : t.kind \notin RequestKinds
               /\ BagCardinality([t \in T |-> tasks[t]]) < MaxRequests

\* A handler run that ends without suspending.
Return(t, data, out) == [t EXCEPT !.pc = "done", !.data = data, !.out = out]

\* Run t, new or resumed, suspends as t2 at the await named pc.
Await(t, t2, pc) == tasks' = Spawn(Drop(tasks, t), [t2 EXCEPT !.pc = pc])

\* Faulty variant: the handlers do not look at the ready flag.
RequestNotReadyIgnored == FALSE

\* if (!isClientReady) { socket.emit("error-message", ...); return; }
RequestNotReady == ~isClientReady

\* socket.on("get-chats")
GetChats(s) ==
    /\ booted
    /\ LET t == Task("get-chats", "run", Null, s, "", DefaultRetries, 0, <<>>)
       IN  IF RequestNotReady
           THEN /\ fin' = Return(t, "not ready",
                                 <<Emit("error-message", s, NotReadyMessage)>>)
                /\ tasks' = tasks
           ELSE /\ ~ChatsNotReady(isClientReady, client) => RequestRoom
                /\ GetFormattedChats(t, isClientReady, client, tasks)
    /\ UNCHANGED session

\* Faulty variant: the revoked messages are not filtered out.
NotRevokedUnfiltered(msgs) == msgs

\* msgs.filter((m) => m.type !== "revoked")
NotRevoked(msgs) == SelectSeq(msgs, LAMBDA m : m.type # "revoked")

\* The list built by Promise.all(msgs.filter(...).map(...)), where dl[i] is
\* the outcome of downloadMedia() of the i-th message kept.
SimplifiedList(msgs, dl) ==
    LET kept == NotRevoked(msgs)
    IN  [i \in 1 .. Len(kept) |-> Simplified(kept[i], MediaOf(kept[i], dl[i]))]

ChatMessages(t, list) ==
    Emit("chat-messages", t.sock, [chatId |-> t.arg, messages |-> list])

\* socket.on("get-chat-messages"): up to `await client.getChatById(chatId)`;
\* with no adapter reference the call throws into the catch block
GetChatMessages(s, chatId) ==
    /\ booted
    /\ LET t == Task("get-chat-messages", "run", Null, s, chatId, 0, 0, <<>>)
       IN  IF RequestNotReady
           THEN /\ fin' = Return(t, "not ready",
                                 <<Emit("error-message", s, NotReadyMessage)>>)
                /\ tasks' = tasks
           ELSE IF client = Null
                THEN /\ fin' = Return(t, "no client", <<ChatMessages(t, <<>>)>>)
                     /\ tasks' = tasks
                ELSE /\ RequestRoom
                     /\ fin' = NoRun
                     /\ Await(t, [t EXCEPT !.ad = client, !.calls = 1],
                              "await_getChatById")
    /\ UNCHANGED session

\* get-chat-messages: getChatById settled with a chat, with nothing, or with
\* an error; with a chat, `await chat.fetchMessages({ limit: 100 })`
ChatMessagesAfterGetChatById(t, got) ==
    /\ t.kind = "get-chat-messages" /\ t.pc = "await_getChatById"
    /\ got = "chat" => adapters[t.ad].phase = "ready"
    /\ IF got = "chat"
       THEN /\ Await(t, [t EXCEPT !.calls = @ + 1], "await_fetchMessages")
            /\ fin' = NoRun
       ELSE /\ tasks' = Drop(tasks, t)
            /\ fin' = Return(t, got, <<ChatMessages(t, <<>>)>>)
    /\ UNCHANGED session

\* get-chat-messages: fetchMessages resolved; the revoked messages are
\* dropped and the downloads of the others are awaited together
ChatMessagesFetched(t, msgs) ==
    /\ t.kind = "get-chat-messages" /\ t.pc = "await_fetchMessages"
    /\ adapters[t.ad].phase = "ready"
    /\ Await(t, [t EXCEPT !.msgs = msgs], "await_downloads")
    /\ fin' = NoRun
    /\ UNCHANGED session

\* get-chat-messages: fetchMessages rejected: the catch block
ChatMessagesFetchRejected(t) ==
    /\ t.kind = "get-chat-messages" /\ t.pc = "await_fetchMessages"
    /\ tasks' = Drop(tasks, t)
    /\ fin' = Return(t, "throw", <<ChatMessages(t, <<>>)>>)
    /\ UNCHANGED session

\* get-chat-messages: every downloadMedia() has settled
ChatMessagesDownloaded(t, dl) ==
    /\ t.kind = "get-chat-messages" /\ t.pc = "await_downloads"
    /\ tasks' = Drop(tasks, t)
    /\ fin' = Return(t, "listed", <<ChatMessages(t, SimplifiedList(t.msgs, dl))>>)
    /\ UNCHANGED session

MediaFailed(t) == Emit("message-media-failed", t.sock, [messageId |-> t.mid])
MediaData(t) ==
    Emit("message-media-data", t.sock, [messageId |-> t.mid, media |-> "media"])

\* socket.on("get-message-media"): up to `await client.getChatById(chatId)`
\* `given` tells whether the event came with a payload: destructuring the
\* parameter of an event sent without one throws before the body is entered,
\* and the run ends rejected.
GetMessageMedia(s, given, chatId, messageId) ==
    /\ booted
    /\ LET t == [Task("get-message-media", "run", Null, s,
                      IF given THEN chatId ELSE "", 0, 0, <<>>)
                   EXCEPT !.mid = IF given THEN messageId ELSE 0]
       IN  IF ~given
           THEN /\ fin' = Return(t, "no payload", <<>>)
                /\ tasks' = tasks
           ELSE IF ~isClientReady
           THEN /\ fin' = Return(t, "not ready", <<>>)
                /\ tasks' = tasks
           ELSE IF client = Null
                THEN /\ fin' = Return(t, "no client", <<MediaFailed(t)>>)
                     /\ tasks' = tasks
                ELSE /\ RequestRoom
                     /\ fin' = NoRun
                     /\ Await(t, [t EXCEPT !.ad = client, !.calls = 1],
                              "await_getChatById")
    /\ UNCHANGED session

\* get-message-media: getChatById settled; with a chat,
\* `await chat.fetchMessages({ limit: 200 })`
MediaAfterGetChatById(t, got) ==
    /\ t.kind = "get-message-media" /\ t.pc = "await_getChatById"
    /\ got = "chat" => adapters[t.ad].phase = "ready"
    /\ IF got = "chat"
       THEN /\ Await(t, [t EXCEPT !.calls = @ + 1], "await_fetchMessages")
            /\ fin' = NoRun
       ELSE /\ tasks' = Drop(tasks, t)
            /\ fin' = Return(t, got, <<MediaFailed(t)>>)
    /\ UNCHANGED session

\* messages.find((m) => m.id._serialized === messageId)
FindMessage(msgs, messageId) ==
    LET hits == {i \in 1 .. Len(msgs) : msgs[i].id = messageId}
    IN  IF hits = {} THEN 0 ELSE CHOOSE i \in hits : \A j \in hits : i <= j

\* if (messageToDownload && messageToDownload.hasMedia)
HasMediaToDownload(msgs, messageId) ==
    /\ FindMessage(msgs, messageId) # 0
    /\ msgs[FindMessage(msgs, messageId)].hasMedia

\* get-message-media: fetchMessages resolved; the message is looked up and,
\* when it has media, `await messageToDownload.downloadMedia()`
MediaFetched(t, msgs) ==
    /\ t.kind = "get-message-media" /\ t.pc = "await_fetchMessages"
    /\ adapters[t.ad].phase = "ready"
    /\ IF HasMediaToDownload(msgs, t.mid)
       THEN /\ Await(t, [t EXCEPT !.msgs = msgs], "await_downloadMedia")
            /\ fin' = NoRun
       ELSE /\ tasks' = Drop(tasks, t)
            /\ fin' = Return([t EXCEPT !.msgs = msgs], "no media message",
                             <<MediaFailed(t)>>)
    /\ UNCHANGED session

\* get-message-media: fetchMessages rejected: the catch block
MediaFetchRejected(t) ==
    /\ t.kind = "get-message-media" /\ t.pc = "await_fetchMessages"
    /\ tasks' = Drop(tasks, t)
    /\ fin' = Return(t, "throw", <<MediaFailed(t)>>)
    /\ UNCHANGED session

\* if (media && media.mimetype && media.data)
MediaResolved(dl) == dl = "data"

\* get-message-media: downloadMedia settled
MediaDownloaded(t, dl) ==
    /\ t.kind = "get-message-media" /\ t.pc = "await_downloadMedia"
    /\ tasks' = Drop(tasks, t)
    /\ fin' = Return(t, dl, <<IF MediaResolved(dl) THEN MediaData(t)
                                                   ELSE MediaFailed(t)>>)
    /\ UNCHANGED session

\* Faulty variant: the error goes to every connection.
SendErrorBroadcast(t, text) ==
    Emit("send_message_error", Broadcast, [tempId |-> t.arg, error |-> text])

\* socket.emit("send_message_error", { tempId, error })
SendError(t, text) ==
    Emit("send_message_error", t.sock, [tempId |-> t.arg, error |-> text])

\* socket.emit("message_sent_confirmation", { tempId, message })
SendConfirmation(t) ==
    Emit("message_sent_confirmation", t.sock, [tempId |-> t.arg, message |-> "sent"])

\* if (!isClientReady || !client)
SendNotReady == ~isClientReady \/ client = Null

\* socket.on("send-message"): up to `await client.sendMessage(...)`
\* `given` tells whether the event came with a payload: without one
\* `const { chatId, message, tempId, media } = data` throws, and the catch
\* block's `data.tempId` throws again, so the run ends rejected before its
\* socket.emit.
SendMessage(s, given, tempId) ==
    /\ booted
    /\ LET t == Task("send-message", "run", Null, s,
                     IF given THEN tempId ELSE "", 0, 0, <<>>)
       IN  IF ~given
           THEN /\ fin' = Return(t, "no payload", <<>>)
                /\ tasks' = tasks
           ELSE IF SendNotReady
           THEN /\ fin' = Return(t, "not ready",
                                 <<SendError(t, "WhatsApp client not ready.")>>)
                /\ tasks' = tasks
           ELSE /\ RequestRoom
                /\ fin' = NoRun
                /\ Await(t, [t EXCEPT !.ad = client, !.calls = 1], "await_sendMessage")
    /\ UNCHANGED session

\* What the handler emits once sendMessage has settled: with the sent
\* message the confirmation; with an error, or with a value that is no
\* message, the catch block's error.
SendOutcome(t, sent) ==
    IF sent = "message" THEN <<SendConfirmation(t)>>
    ELSE <<SendError(t, "Failed to send message.")>>

\* send-message: sendMessage settled
SendMessageSettled(t, sent) ==
    /\ t.kind = "send-message" /\ t.pc = "await_sendMessage"
    /\ sent = "message" => adapters[t.ad].phase = "ready"
    /\ tasks' = Drop(tasks, t)
    /\ fin' = Return(t, sent, SendOutcome(t, sent))
    /\ UNCHANGED session

\* ============================================================ properties
\* Handler runs of one kind that are suspended at an await.
InFlight(kind) == {t \in Running : t.kind = kind}
CountInFlight(kind) ==
    LET S == InFlight(kind)
        Sum[T \in SUBSET S] ==
            IF T = {} THEN 0
            ELSE LET x == CHOOSE y \in T : TRUE
                 IN  CopiesIn(x, tasks) + Sum[T \ {x}]
    IN  Sum[S]

\* The events of one name that a run has emitted.
Emitted(t, ev) == SelectSeq(t.out, LAMBDA e : e.ev = ev)
EmittedStatus(t, val) == SelectSeq(t.out, LAMBDA e : e.ev = "status" /\ e.val = val)

\* C1: a call of initializeClientIfNeeded that arrives while an earlier call
\* is still awaiting initialize returns without calling the adapter, so the
\* two calls make exactly one initialize invocation: never are two
\* initialize calls in flight, and the call that found the latch set leaves
\* the one invocation of the earlier call in flight.
C1_OneInitializeInFlight ==
    /\ CountInFlight("init") <= 1
    /\ isInitializing <=> CountInFlight("init") = 1
    /\ (fin.kind = "start-session" /\ fin.data = "latched") =>
          /\ fin.calls = 0
          /\ CountInFlight("init") = 1

C1_Witness ==
    /\ fin.kind = "start-session"
    /\ fin.data = "latched"
    /\ \E t \in InFlight("init") : adapters[t.ad].inits = 1

C5_ReadyImpliesInitialized == isClientReady => clientInitialized

\* C6 as stated: in every reachable state a stored pairing image does not
\* coexist with the ready flag.
C6_NoQrWhileReady == ~(lastQrDataUrl # NoQr /\ isClientReady)

\* C7: every run of the ready handler broadcasts status "ready" first and
\* nothing else before it ends; it ends with one broadcast chats event of at
\* most 50 items, which therefore follows the status broadcast.
ReadyRunOrdered(t) ==
    /\ Len(t.out) >= 1
    /\ t.out[1] = Emit("status", Broadcast, "ready")
    /\ t.pc # "done" => Len(t.out) = 1
    /\ t.pc = "done" =>
          /\ Len(t.out) = 2
          /\ t.out[2].ev = "chats"
          /\ t.out[2].to = Broadcast
          /\ Len(t.out[2].val) <= ChatLimit

C7_ReadyThenChats ==
    /\ \A t \in InFlight("ready") : ReadyRunOrdered(t)
    /\ fin.kind = "ready" => ReadyRunOrdered(fin)

C7_Witness ==
    /\ fin.kind = "ready"
    /\ Len(fin.out) = 2
    /\ Len(fin.out[2].val) = ChatLimit
    /\ fin.calls = 1

\* C2: every send-message run ends with exactly one event, either
\* message_sent_confirmation or send_message_error, sent to the requester and
\* carrying the request's tempId; it has emitted nothing before it ends.  The
\* confirmation is sent exactly when sendMessage gave the sent message; a run
\* that made no adapter call (not ready) ends with the error.
SendRunOk(t) ==
    /\ t.pc # "done" => t.out = <<>>
    /\ t.pc = "done" =>
          /\ Len(t.out) = 1
          /\ t.out[1].ev \in {"message_sent_confirmation", "send_message_error"}
          /\ t.out[1].to = t.sock
          /\ t.out[1].val.tempId = t.arg
          /\ t.out[1].ev = "message_sent_confirmation" <=> t.data = "message"
          /\ t.calls = 0 => t.out[1].ev = "send_message_error"

C2_ExactlyOneSendOutcome ==
    /\ \A t \in InFlight("send-message") : SendRunOk(t)
    /\ fin.kind = "send-message" => SendRunOk(fin)

\* C3: a get-chats or get-chat-messages request handled while the session is
\* not ready ends at once with one error-message to the requester and
\* nothing else: no chats or chat-messages event, no adapter call, no
\* suspended run.
C3_NotReadyRequestsRefused ==
    [][\A s \in Sockets :
          (~isClientReady /\ (GetChats(s) \/ \E c \in ChatIds : GetChatMessages(s, c)))
          => /\ fin'.out = <<Emit("error-message", s, NotReadyMessage)>>
             /\ fin'.kind \in {"get-chats", "get-chat-messages"}
             /\ fin'.calls = 0
             /\ tasks' = tasks
             /\ adapters' = adapters]_vars

C3_Witness ==
    /\ fin.kind = "get-chat-messages"
    /\ ~isClientReady
    /\ fin.calls = 0
    /\ Len(Emitted(fin, "error-message")) = 1
    /\ Len(Emitted(fin, "chat-messages")) = 0

\* C8: the list getFormattedChats() returns once getChats() has resolved is
\* the first 50 chats of the adapter's list, in the adapter's order, and so
\* has at most 50 entries.
ChatsOf(t) == t.out[Len(t.out)].val

C8_ChatsCappedAtFifty ==
    [][\A t \in Running, raw \in ChatInputs :
          GetChatsResolved(t, raw)
          => /\ Len(ChatsOf(fin')) <= ChatLimit
             /\ Len(ChatsOf(fin')) = Min(Len(raw), ChatLimit)
             /\ \A i \in 1 .. Len(ChatsOf(fin')) : ChatsOf(fin')[i] = raw[i]]_vars

C8_Witness ==
    /\ fin.kind = "get-chats"
    /\ fin.calls = 1
    /\ Len(ChatsOf(fin)) = ChatLimit
    /\ ChatsOf(fin)[ChatLimit] = ChatLimit + 100

\* C9: every get-chat-messages run ends with exactly one chat-messages event
\* to the requester for the chat asked for; its list holds no entry of type
\* "revoked"; when fetchMessages gave a list, it holds exactly one entry for
\* each message of that list that is not revoked, in the list's order,
\* whatever the media downloads gave.
ChatMessagesRunOk(t) ==
    /\ t.pc # "done" => t.out = <<>>
    /\ (t.pc = "done" /\ t.data # "not ready") =>
          /\ Len(t.out) = 1
          /\ t.out[1].ev = "chat-messages"
          /\ t.out[1].to = t.sock
          /\ t.out[1].val.chatId = t.arg
          /\ LET list == t.out[1].val.messages
                 keep == {i \in 1 .. Len(t.msgs) : t.msgs[i].type # "revoked"}
             IN  /\ \A j \in 1 .. Len(list) : list[j].type # "revoked"
                 /\ t.data = "listed" =>
                       /\ Len(list) = Cardinality(keep)
                       /\ {list[j].id : j \in 1 .. Len(list)}
                             = {t.msgs[i].id : i \in keep}
                       /\ \A j, k \in 1 .. Len(list) :
                             j < k => list[j].id < list[k].id
                 /\ t.data # "listed" => list = <<>>

C9_NoRevokedMessages ==
    /\ \A t \in InFlight("get-chat-messages") : ChatMessagesRunOk(t)
    /\ fin.kind = "get-chat-messages" => ChatMessagesRunOk(fin)

C9_Witness ==
    /\ fin.kind = "get-chat-messages"
    /\ fin.data = "listed"
    /\ Len(fin.msgs) = 2
    /\ fin.msgs[1].type = "revoked"
    /\ fin.msgs[2].type = "image"
    /\ Len(fin.out[1].val.messages) = 1
    /\ fin.out[1].val.messages[1].media = "null"

\* C10: a get-message-media run handled while not ready ends at once with no
\* event and no adapter call.  Handled while ready it emits nothing until it
\* ends, and ends with exactly one event to the requester carrying the
\* request's messageId: message-media-data when the message was found among
\* the fetched ones, has media and the download gave media with data, and
\* message-media-failed in every other case.
MediaRunOk(t) ==
    /\ t.pc # "done" => t.out = <<>>
    /\ (t.pc = "done" /\ t.calls = 0 /\ ~isClientReady) => t.out = <<>>
    /\ (t.pc = "done" /\ (t.calls > 0 \/ isClientReady)) =>
          /\ Len(t.out) = 1
          /\ t.out[1].ev \in {"message-media-data", "message-media-failed"}
          /\ t.out[1].to = t.sock
          /\ t.out[1].val.messageId = t.mid
          /\ t.out[1].ev = "message-media-data" <=>
                /\ t.data = "data"
                /\ \E i \in 1 .. Len(t.msgs) :
                      t.msgs[i].id = t.mid /\ t.msgs[i].hasMedia

C10_OneMediaOutcome ==
    /\ \A t \in InFlight("get-message-media") : MediaRunOk(t)
    /\ fin.kind = "get-message-media" => MediaRunOk(fin)

\* C11 as stated: from the end of a logout or disconnected handler, which
\* sets the recreation timer, until that timer fires, the session state has
\* its initial values: no adapter reference, not initializing, not
\* initialized, not ready, no stored pairing image.
SessionIsReset ==
    /\ client = Null
    /\ ~isInitializing
    /\ ~clientInitialized
    /\ ~isClientReady
    /\ lastQrDataUrl = NoQr

C11_ResetUntilRecreation == timers > 0 => SessionIsReset

\* C12 as stated: after every logout request and every disconnected event
\* has been handled, eventually the adapter reference holds an adapter on
\* which initialize has been invoked.  (When the handler ends the reference
\* is null, so that adapter is one created afterwards.)
RecoveryDue == fin.kind \in {"logout", "disconnected"} /\ fin.pc = "done"
Reinitialized == client # Null /\ adapters[client].inits > 0

C12_RecoveryReinitializes == RecoveryDue ~> Reinitialized

\* The run of the given kind that a step has started: the run that ended in
\* the step, or the one the step has added to the suspended runs.
Started(kind) ==
    IF fin'.kind = kind THEN fin'
    ELSE CHOOSE t \in BagToSet(tasks') :
            t.kind = kind /\ CopiesIn(t, tasks') > CopiesIn(t, tasks)

\* C13: a new connection is sent exactly one status, chosen by the state at
\* connect time: "ready" when the session is ready, else the stored pairing
\* image and then "qr_received" when an image is stored, else
\* "disconnected"; nothing goes to another socket.  When ready the run goes
\* on to send that socket one chats event, and sends nothing in between;
\* when not ready it ends at once without a chats event.
ConnectionRunOk(t) ==
    /\ Len(Emitted(t, "status")) = 1
    /\ \A i \in 1 .. Len(t.out) : t.out[i].to = t.sock
    /\ t.pc # "done" => t.out = <<Emit("status", t.sock, "ready")>>
    /\ (t.pc = "done" /\ t.out[1] = Emit("status", t.sock, "ready")) =>
          /\ Len(t.out) = 2
          /\ t.out[2].ev = "chats"
    /\ (t.pc = "done" /\ t.out[1] # Emit("status", t.sock, "ready")) =>
          Len(Emitted(t, "chats")) = 0

ConnectionStepOk(s) ==
    LET r == Started("connection")
    IN  /\ r.sock = s
        /\ isClientReady =>
              /\ r.out[1] = Emit("status", s, "ready")
              /\ r.pc = "done" \/ r.pc = "await_getChats"
        /\ (~isClientReady /\ lastQrDataUrl # NoQr) =>
              /\ r.pc = "done"
              /\ r.out = <<Emit("qr", s, lastQrDataUrl),
                           Emit("status", s, "qr_received")>>
        /\ (~isClientReady /\ lastQrDataUrl = NoQr) =>
              /\ r.pc = "done"
              /\ r.out = <<Emit("status", s, "disconnected")>>

C13_ConnectionPushesStatus ==
    /\ [](\A t \in InFlight("connection") : ConnectionRunOk(t))
    /\ [](fin.kind = "connection" => ConnectionRunOk(fin))
    /\ [][\A s \in Sockets : Connection(s) => ConnectionStepOk(s)]_vars

C13_Witness ==
    /\ fin.kind = "connection"
    /\ ~isClientReady
    /\ lastQrDataUrl # NoQr
    /\ fin.out = <<Emit("qr", fin.sock, lastQrDataUrl),
                   Emit("status", fin.sock, "qr_received")>>

\* C14: the outcome events of send-message go to the requesting socket
\* only.  Every message_sent_confirmation and send_message_error is emitted
\* by a send-message run, to the socket that made the request and never as a
\* broadcast, and carries the tempId the request supplied.
SendEvents == {"message_sent_confirmation", "send_message_error"}

OutcomeToRequesterOnly(t) ==
    \A i \in 1 .. Len(t.out) :
        t.out[i].ev \in SendEvents =>
            /\ t.kind = "send-message"
            /\ t.out[i].to = t.sock
            /\ t.out[i].to # Broadcast
            /\ t.out[i].val.tempId = t.arg

C14_SendOutcomeToRequesterOnly ==
    /\ [](\A t \in Running : OutcomeToRequesterOnly(t))
    /\ [](OutcomeToRequesterOnly(fin))
    /\ [][\A s \in Sockets, id \in TempIds :
             SendMessage(s, TRUE, id) =>
                 /\ Started("send-message").sock = s
                 /\ Started("send-message").arg = id]_vars

C14_Witness ==
    /\ fin.kind = "send-message"
    /\ fin.data = "throw"
    /\ fin.out = <<Emit("send_message_error", fin.sock,
                        [tempId |-> fin.arg, error |-> "Failed to send message."])>>
    /\ fin.sock = 2
    /\ fin.arg = "t2"

\* C15: isInitializing is true only while a call of
\* initializeClientIfNeeded is suspended at `await client.initialize()`.
\* The step in which that call goes on, after success or after failure,
\* clears the flag; after failure it also sets clientInitialized to false
\* and broadcasts exactly one error-message, and after success it
\* broadcasts nothing.
InitFailure ==
    <<Emit("error-message", Broadcast, "Failed to initialize WhatsApp client")>>

C15_LatchClearedOnExit ==
    /\ [](isInitializing => InFlight("init") # {})
    /\ [](fin.kind = "init" => ~isInitializing /\ fin.out \in {<<>>, InitFailure})
    /\ [][\A t \in Running :
             /\ InitializeResolved(t) => ~isInitializing' /\ fin'.out = <<>>
             /\ InitializeRejected(t) =>
                   /\ ~isInitializing'
                   /\ ~clientInitialized'
                   /\ fin'.out = InitFailure]_vars

C15_Witness ==
    /\ fin.kind = "init"
    /\ fin.out = InitFailure
    /\ ~isInitializing
    /\ ~clientInitialized
    /\ InFlight("init") = {}

\* C16 as stated: when an initialize call has failed the session is not
\* ready; and initialize is invoked only by the startup block, by a
\* start-session request or by the recreation timer of a logout or
\* disconnect, never by the failure path itself.
InitializeInvoked ==
    \E a \in AdapterIds : adapters'[a].inits > adapters[a].inits

C16_FailureLeavesNotReady ==
    /\ []((fin.kind = "init" /\ fin.out = InitFailure) => ~isClientReady)
    /\ [][InitializeInvoked =>
             \/ Startup
             \/ RecreateTimer
             \/ \E s \in Sockets : StartSession(s)]_vars

\* C20 as stated: initialize is invoked at most once on any one adapter.
C20_InitializeOncePerAdapter == \A a \in AdapterIds : adapters[a].inits <= 1

\* The handler runs that call getFormattedChats(): t.calls counts their
\* getChats() calls, t.retries the retries left.
ChatCallers == {"ready", "connection", "get-chats", "message_create"}
InChatsCall(t) == t.kind \in ChatCallers /\ t.pc \in {"await_getChats", "retry_delay"}
LastEvent(t) == t.out[Len(t.out)]
ReturnedEmpty(t) == t.pc = "done" /\ LastEvent(t).ev = "chats" /\ LastEvent(t).val = <<>>

\* C17: one top-level call of getFormattedChats() makes at most 4 getChats()
\* calls, the first and at most 3 retries.  A getChats() failure naming
\* "Session closed", and a failure with no retry left, end the call in that
\* step with [] handed to the caller; any other failure leads to one retry
\* delay with one retry fewer left.  The number of retries left only goes
\* down, so the call ends once the awaited calls settle.
ChatsCallBounded(t) ==
    t.kind \in ChatCallers =>
        /\ t.calls <= DefaultRetries + 1
        /\ t.retries \in 0 .. DefaultRetries
        /\ InChatsCall(t) => t.calls + t.retries = DefaultRetries + 1
        /\ t.pc = "retry_delay" => t.retries > 0

C17_BoundedRetries ==
    /\ [](\A t \in Running : ChatsCallBounded(t))
    /\ [](ChatsCallBounded(fin))
    /\ [][\A t \in Running, err \in GetChatsErrors :
             GetChatsRejected(t, err) =>
                 IF err = SessionClosed \/ t.retries = 0
                 THEN /\ fin'.kind = t.kind
                      /\ fin'.calls = t.calls
                      /\ ReturnedEmpty(fin')
                 ELSE /\ fin' = NoRun
                      /\ Started(t.kind).pc = "retry_delay"
                      /\ Started(t.kind).calls = t.calls
                      /\ Started(t.kind).retries = t.retries]_vars
    /\ [][\A t \in Running :
             RetryDelayElapsed(t) =>
                 \/ fin'.kind = t.kind /\ fin'.retries = t.retries - 1
                 \/ /\ fin' = NoRun
                    /\ Started(t.kind).retries = t.retries - 1]_vars

C17_Witness ==
    /\ fin.kind \in ChatCallers
    /\ fin.calls = DefaultRetries + 1
    /\ fin.retries = 0
    /\ ReturnedEmpty(fin)

\* C18: a call of getFormattedChats() made while the ready flag is false or
\* the adapter reference is null returns [] in that step without a
\* getChats() call.  So no step that ends with the flag false or the
\* reference null has started a getChats() call; a retry that finds them so
\* after its delay, and a ready handler that finds no adapter reference, end
\* with [] and the calls they had made before.
NoNewChatsCall ==
    \A u \in BagToSet(tasks') :
        u.pc = "await_getChats" => CopiesIn(u, tasks') <= CopiesIn(u, tasks)

RefusedChats(t) ==
    /\ fin'.kind = t.kind
    /\ fin'.calls = t.calls
    /\ ReturnedEmpty(fin')

C18_NoChatsCallWhenNotReady ==
    /\ [][(~isClientReady' \/ client' = Null) => NoNewChatsCall]_vars
    /\ [][(~isClientReady \/ client = Null) =>
             \A t \in Running : RetryDelayElapsed(t) => RefusedChats(t)]_vars
    /\ [][client = Null =>
             \A a \in AdapterIds : AdapterReady(a) => RefusedChats(ReadyRun)]_vars

C18_Witness ==
    /\ fin.kind = "ready"
    /\ fin.calls = 1
    /\ fin.retries = DefaultRetries - 1
    /\ ReturnedEmpty(fin)
    /\ ~isClientReady
    /\ client # Null

\* C19: a message_create event handled while the ready flag is false ends
\* at once with no event.  Handled while the flag is true it broadcasts
\* nothing until the media download, if any, has settled, then exactly one
\* new_message keyed by the chat of the message, with media absent unless
\* the download gave data, and it ends with one chats broadcast after it.
MessageRunOk(t) ==
    /\ \A i \in 1 .. Len(t.out) : t.out[i].to = Broadcast
    /\ t.pc = "await_download" => t.out = <<>>
    /\ t.pc \in {"await_getChats", "retry_delay"} => Len(t.out) = 1
    /\ t.pc = "done" => Len(t.out) \in {0, 2}
    /\ Len(t.out) >= 1 =>
          /\ t.out[1].ev = "new_message"
          /\ t.out[1].val.chatId = t.arg
          /\ t.out[1].val.message.id = t.msgs[1].id
          /\ t.out[1].val.message.media = "media" => t.data = "data"
          /\ t.data \in {"throw", "empty"} => t.out[1].val.message.media = "null"
    /\ Len(t.out) = 2 => t.out[2].ev = "chats"

C19_MessageCreateBroadcasts ==
    /\ [](\A t \in InFlight("message_create") : MessageRunOk(t))
    /\ [](fin.kind = "message_create" => MessageRunOk(fin))
    /\ [][\A a \in AdapterIds, m \in CreatedMessages :
             AdapterMessageCreate(a, m) =>
                 LET r == Started("message_create")
                 IN  /\ r.arg = IF m.fromMe THEN m.to ELSE m.from
                     /\ r.msgs = <<m>>
                     /\ ~isClientReady => r.pc = "done" /\ r.out = <<>>
                     /\ isClientReady => r.pc # "done" \/ Len(r.out) = 2]_vars

C19_Witness ==
    /\ fin.kind = "message_create"
    /\ fin.data = "throw"
    /\ Len(fin.out) = 2
    /\ fin.out[1].ev = "new_message"
    /\ fin.out[1].val.message.media = "null"
    /\ fin.out[2].ev = "chats"

\* C21 as stated: at most one adapter that has been created and not
\* destroyed exists at any time, and a step that puts a new adapter in the
\* place of an adapter reference does so only when the adapter referenced
\* before has been destroyed.  An adapter is destroyed once its destroy()
\* has resolved.
Undestroyed == {a \in AdapterIds : adapters[a].phase \notin {"none", "closed"}}

C21_OneUndestroyedAdapter ==
    /\ [](Cardinality(Undestroyed) <= 1)
    /\ [][(client # Null /\ client' # Null /\ client' # client) =>
             adapters[client].phase = "closed"]_vars

\* C22 as stated: whenever clientInitialized is true, client references an
\* adapter whose initialize() completed successfully: the flag is never
\* true without an adapter, an initialize() that resolves marks the session
\* initialized only when it was started on the adapter referenced now, and
\* the flag does not survive a change of the referenced adapter.  An
\* initialize() started on a discarded adapter does not block the
\* replacement: while the latch is set, the initialize() in flight is the
\* one of the adapter referenced now.
InitializeOf(a) == {t \in InFlight("init") : t.ad = a}

C22_InitializedIsCurrentAdapter ==
    /\ [](clientInitialized => client # Null)
    /\ []((isInitializing /\ client # Null) => InitializeOf(client) # {})
    /\ [][(fin'.kind = "init" /\ clientInitialized') => fin'.ad = client']_vars
    /\ [][client' # client => ~clientInitialized']_vars

\* C23 as stated: no adapter operation (getChats, getChatById, sendMessage)
\* is invoked on an adapter after destroy() has been called on it: every
\* step that starts one of these calls starts it on an adapter on which
\* destroy() has not been called, also while a disconnected or logout
\* handler is suspended at destroy() or at the removal of the folder.
AdapterCalls == {"await_getChats", "await_getChatById", "await_sendMessage"}

CallStarted(u) ==
    /\ u.pc \in AdapterCalls
    /\ CopiesIn(u, tasks') > CopiesIn(u, tasks)

C23_NoCallAfterDestroy ==
    [][\A u \in BagToSet(tasks') :
          CallStarted(u) => ~adapters[u.ad].destroyCalled]_vars

\* C24 as stated: in every reachable state, isClientReady true implies that
\* the adapter reference client is not null.
C24_ReadyImpliesClient == isClientReady => client # Null

\* C25 as stated: once authenticated, disconnected or logout has cleared the
\* pairing image it stays absent until a later qr event, and a qr handler
\* whose encoding was pending at the clear neither stores nor broadcasts its
\* image afterwards.  An adapter emits qr only before it is authenticated,
\* so in a state where every adapter created so far is authenticated each
\* qr handler still pending was pending when its adapter's authenticated
\* handler cleared the image: there the image is absent, and a qr handler
\* that ends there has broadcast nothing.
AllAuthenticated ==
    /\ \A a \in AdapterIds : adapters[a].phase \in {"none", "authed", "ready"}
    /\ \E a \in AdapterIds : adapters[a].phase \in {"authed", "ready"}

C25_ClearedImageStaysAbsent ==
    /\ [](AllAuthenticated => lastQrDataUrl = NoQr)
    /\ [][(AllAuthenticated /\ fin'.kind = "qr") =>
             /\ fin'.out = <<>>
             /\ lastQrDataUrl' = NoQr]_vars

Init ==
    /\ booted = FALSE
    /\ client = Null
    /\ clientInitialized = FALSE
    /\ isClientReady = FALSE
    /\ lastQrDataUrl = NoQr
    /\ isInitializing = FALSE
    /\ adapters = [a \in AdapterIds |-> NoAdapter]
    /\ authFolder \in BOOLEAN
    /\ tasks = EmptyBag
    /\ timers = 0
    /\ fin = NoRun

Next ==
    \/ Startup
    \/ \E s \in Sockets : StartSession(s)
    \/ \E t \in Running : InitializeResolved(t)
    \/ \E t \in Running : InitializeRejected(t)
    \/ RecreateTimer
    \/ \E a \in AdapterIds, qr \in QrCodes : AdapterQr(a, qr)
    \/ \E t \in Running : QrEncoded(t)
    \/ \E t \in Running : QrEncodingFailed(t)
    \/ \E a \in AdapterIds : AdapterAuthenticated(a)
    \/ \E a \in AdapterIds : AdapterReady(a)
    \/ \E t \in Running, raw \in RawChatLists : GetChatsResolved(t, raw)
    \/ \E t \in Running, err \in GetChatsErrors : GetChatsRejected(t, err)
    \/ \E t \in Running : RetryDelayElapsed(t)
    \/ \E a \in AdapterIds : AdapterDisconnected(a)
    \/ \E t \in Running, ok \in BOOLEAN : DisconnectedAfterDestroy(t, ok)
    \/ \E t \in Running : FsRm(t)
    \/ \E t \in Running : DisconnectedAfterRm(t)
    \/ \E s \in Sockets : Logout(s)
    \/ \E t \in Running : LogoutDestroyResolved(t)
    \/ \E t \in Running : LogoutDestroyRejected(t)
    \/ \E t \in Running : LogoutAfterRm(t)

Spec == Init /\ [][Next]_vars

\* The life of the first adapter: startup, pairing, ready, and the loss of
\* the session by a disconnected event or a logout.  The request handlers
\* read the ready flag and the adapter reference only as they start, so
\* they are checked beside this part of Next.
FirstSession ==
    \/ Startup
    \/ \E t \in Running : InitializeResolved(t)
    \/ \E a \in AdapterIds : AdapterAuthenticated(a)
    \/ \E a \in AdapterIds : AdapterReady(a)
    \/ \E t \in Running, raw \in RawChatLists : GetChatsResolved(t, raw)
    \/ \E t \in Running, err \in GetChatsErrors : GetChatsRejected(t, err)
    \/ \E t \in Running : RetryDelayElapsed(t)
    \/ \E a \in AdapterIds : AdapterDisconnected(a)
    \/ \E t \in Running, ok \in BOOLEAN : DisconnectedAfterDestroy(t, ok)
    \/ \E t \in Running : FsRm(t)
    \/ \E t \in Running : DisconnectedAfterRm(t)
    \/ \E s \in Sockets : Logout(s)
    \/ \E t \in Running : LogoutDestroyResolved(t)
    \/ \E t \in Running : LogoutDestroyRejected(t)
    \/ \E t \in Running : LogoutAfterRm(t)

\* The request handlers of the gateway.
Requests ==
    \/ \E s \in Sockets : GetChats(s)
    \/ \E s \in Sockets, c \in ChatIds : GetChatMessages(s, c)
    \/ \E t \in Running, got \in {"chat", "none", "throw"} :
          ChatMessagesAfterGetChatById(t, got)
    \/ \E t \in Running, msgs \in MessageLists : ChatMessagesFetched(t, msgs)
    \/ \E t \in Running : ChatMessagesFetchRejected(t)
    \/ \E t \in Running, dl \in [1 .. MaxMsgs -> Downloads] :
          ChatMessagesDownloaded(t, dl)
    \/ \E s \in Sockets, given \in BOOLEAN, c \in ChatIds, m \in MessageIds :
          GetMessageMedia(s, given, c, m)
    \/ \E t \in Running, got \in {"chat", "none", "throw"} :
          MediaAfterGetChatById(t, got)
    \/ \E t \in Running, msgs \in MessageLists : MediaFetched(t, msgs)
    \/ \E t \in Running : MediaFetchRejected(t)
    \/ \E t \in Running, dl \in Downloads : MediaDownloaded(t, dl)
    \/ \E s \in Sockets, given \in BOOLEAN, id \in TempIds : SendMessage(s, given, id)
    \/ \E t \in Running, sent \in {"message", "undefined", "throw"} :
          SendMessageSettled(t, sent)

NextReq == FirstSession \/ Requests

SpecReq == Init /\ [][NextReq]_vars

\* The formatter alone: a get-chats request on a ready session, and every
\* list in ChatInputs as the adapter's answer.
InitChats ==
    /\ booted = TRUE
    /\ client = 1
    /\ clientInitialized = TRUE
    /\ isClientReady = TRUE
    /\ lastQrDataUrl = NoQr
    /\ isInitializing = FALSE
    /\ adapters = [a \in AdapterIds |->
                     IF a = 1 THEN [phase |-> "ready", inits |-> 1,
                                    destroyCalled |-> FALSE]
                     ELSE NoAdapter]
    /\ authFolder = TRUE
    /\ tasks = EmptyBag
    /\ timers = 0
    /\ fin = NoRun

NextChats ==
    \/ \E s \in Sockets : GetChats(s)
    \/ \E t \in Running, raw \in ChatInputs : GetChatsResolved(t, raw)

SpecChats == InitChats /\ [][NextChats]_vars

\* Automatic recovery: the session's life without start-session requests and
\* pairing images, one loss of the session at a time and only while an
\* adapter remains for its recreation.  Everything the program has scheduled
\* happens: the startup block, the recreation timer, the retry delay, and
\* the settling of every awaited call.
RecoveryRoom ==
    /\ timers = 0
    /\ InFlight("logout") = {}
    /\ InFlight("disconnected") = {}
    /\ Cardinality(Unused(adapters)) > 0

InitializeSettled == \E t \in Running : InitializeResolved(t) \/ InitializeRejected(t)
GetChatsSettled ==
    \/ \E t \in Running, raw \in RawChatLists : GetChatsResolved(t, raw)
    \/ \E t \in Running, err \in GetChatsErrors : GetChatsRejected(t, err)
RetryDue == \E t \in Running : RetryDelayElapsed(t)
DestroySettled ==
    \/ \E t \in Running, ok \in BOOLEAN : DisconnectedAfterDestroy(t, ok)
    \/ \E t \in Running : LogoutDestroyResolved(t)
    \/ \E t \in Running : LogoutDestroyRejected(t)
RmSettled == \E t \in Running : FsRm(t)
LossHandled ==
    \/ \E t \in Running : DisconnectedAfterRm(t)
    \/ \E t \in Running : LogoutAfterRm(t)

NextRecovery ==
    \/ Startup
    \/ InitializeSettled
    \/ RecreateTimer
    \/ \E a \in AdapterIds : AdapterAuthenticated(a)
    \/ \E a \in AdapterIds : AdapterReady(a)
    \/ GetChatsSettled
    \/ RetryDue
    \/ RecoveryRoom /\ \E a \in AdapterIds : AdapterDisconnected(a)
    \/ RecoveryRoom /\ \E s \in Sockets : Logout(s)
    \/ DestroySettled
    \/ RmSettled
    \/ LossHandled

Scheduled ==
    /\ WF_vars(Startup)
    /\ WF_vars(InitializeSettled)
    /\ WF_vars(RecreateTimer)
    /\ WF_vars(GetChatsSettled)
    /\ WF_vars(RetryDue)
    /\ WF_vars(DestroySettled)
    /\ WF_vars(RmSettled)
    /\ WF_vars(LossHandled)

SpecRecovery == Init /\ [][NextRecovery]_vars /\ Scheduled

\* The pairing images of the first session.
Pairing ==
    \/ \E a \in AdapterIds, qr \in QrCodes : AdapterQr(a, qr)
    \/ \E t \in Running : QrEncoded(t)
    \/ \E t \in Running : QrEncodingFailed(t)

\* The gateway's connections and the adapter's messages beside the first
\* session and its pairing.
NextGateway ==
    \/ FirstSession
    \/ Pairing
    \/ \E s \in Sockets : Connection(s)
    \/ \E a \in AdapterIds, m \in CreatedMessages : AdapterMessageCreate(a, m)
    \/ \E t \in Running, dl \in Downloads : MessageCreateDownloaded(t, dl)

SpecGateway == Init /\ [][NextGateway]_vars
====
